---- MODULE Spec2Model ----
(***************************************************************************)
(* A model of the wave-simulation program: the ping-pong WaveSimulation    *)
(* (src/src/simulation.rs), the SurfaceMesh generator                      *)
(* (src/src/renderer/surface.rs) and the frame loop of App / Renderer      *)
(* (src/src/application.rs, src/src/renderer/mod.rs).                      *)
(*                                                                         *)
(* Numbers.  f32 lengths are kept as exact multiples of 1/LenDen (quarters *)
(* are exactly representable in f32, and so are all the products formed    *)
(* here).  A mesh coordinate is kept as its numerator over the             *)
(* denominator named next to it.                                           *)
(***************************************************************************)
EXTENDS Integers, Sequences, FiniteSets, TLC

\* ---------------------------------------------------------------- bounds
MaxLenQ == 12       \* lengths 1/4 .. MaxLenQ/4 are tried besides the program's
MaxRes == 4         \* resolutions 1 .. MaxRes are tried besides the program's
MaxTicks == 4       \* ticks issued by a client of WaveSimulation
MaxEncoders == 2    \* command encoders a client of WaveSimulation finishes
MaxDim == 2         \* window widths 0 .. MaxDim
MaxHeight == 1      \* window heights 0 .. MaxHeight
MaxFrames == 2      \* frames rendered
UsizeBits == 2      \* width of `usize`, scaled down so that its limit is reached
MaxYaw == 1         \* the camera turns at most this far either way
MaxPitchUp == 1     \* steps from the initial pitch up to the upper clamp
MaxPitchDown == 1   \* steps from the initial pitch down to the lower clamp

\* ------------------------------------------------------- program constants
LenDen == 4                     \* lengths are counted in quarters
SIMULATION_LENGTH_Q == 20       \* SIMULATION_LENGTH = 5.0 = 20/4
SIMULATION_RESOLUTION == 500
WORKGROUP == 16                 \* "the shader has a workgroup size of 16x16x1"

VARIABLES
    length,       \* SIMULATION_LENGTH of this build, in quarters
    resolution,   \* SIMULATION_RESOLUTION of this build
    target,       \* cfg(target_arch) of this build: "native" or "wasm32"
    simulation,   \* the WaveSimulation value, or NoSim before WaveSimulation::new
    encoder,      \* commands recorded into the current CommandEncoder
    finished,     \* number of encoders finished so far
    binding,      \* what the last get_active_texture call returned, or NoBinding
    ticks,        \* history: number of tick calls made
    last,         \* history: the compute pass recorded by the most recent tick
    mesh,         \* the SurfaceMesh value, or NoMesh before SurfaceMesh::new
    app,          \* AppHandler::app is Some
    pending,      \* the App::new future spawned by `resumed` has not finished
    exited,       \* event_loop.exit() was called
    window,       \* inner size of the window, <<width, height>>
    surface_config, \* GpuContext::surface_config, <<width, height>>
    depth,        \* extent of FrameTargets::depth, <<width, height>>
    camera,       \* App::camera
    focused,      \* InputState::focused
    keys_held,    \* InputState::keys_held
    mouse_delta,  \* InputState::mouse_delta, <<dx, dy>>
    resized,      \* history: the size of the most recent Resized event, or NoResize
    redraw,       \* a RedrawRequested event is pending
    frames,       \* history: number of Renderer::render calls completed
    frame,        \* history: the calls made by the most recent Renderer::render
    panicked,     \* the process was aborted by a panic
    failure       \* history: the resource whose creation failed in App::new

cfgVars == <<length, resolution, target>>
simVars == <<simulation, encoder, finished, binding, ticks, last>>
meshVars == <<mesh>>
appVars == <<app, pending, exited, window, surface_config, depth, camera, focused,
             keys_held, mouse_delta, resized, redraw, frames, frame>>
procVars == <<panicked, failure>>
vars == <<cfgVars, simVars, meshVars, appVars, procVars>>

NoSim == [constructed |-> FALSE]
NoBinding == [label |-> "none"]
NoPass == [op |-> "none"]
NoMesh == [built |-> FALSE]
NoCamera == [aspect_ratio |-> [num |-> 0, den |-> 1], yaw |-> 0, pitch |-> 0]
NoSize == <<0, 0>>
NoResize == <<>>

\* The part of the state that exists only once App::new has run.
NoApp ==
    /\ app = FALSE
    /\ pending = FALSE
    /\ exited = FALSE
    /\ window = NoSize
    /\ surface_config = NoSize
    /\ depth = NoSize
    /\ camera = NoCamera
    /\ focused = FALSE
    /\ keys_held = {}
    /\ mouse_delta = <<0, 0>>
    /\ resized = NoResize
    /\ redraw = FALSE
    /\ frames = 0
    /\ frame = <<>>
    /\ panicked = FALSE
    /\ failure = "none"

WindowSizes == (0..MaxDim) \X (0..MaxHeight)
KeyCodes == {"KeyQ", "KeyW"}
Deltas == {<<1, 0>>, <<0, 1>>, <<0, -1>>}
DeviceEvents ==
    [kind : {"MouseMotion"}, delta : Deltas]
        \cup [kind : {"Button"}, delta : {<<0, 0>>}]
Targets == {"native", "wasm32"}
InitFailures == {"none", "surface", "adapter", "device", "simulation"}
ElementStates == {"Pressed", "Released"}

Lengths == (1..MaxLenQ) \cup {SIMULATION_LENGTH_Q}
Resolutions == (1..MaxRes) \cup {SIMULATION_RESOLUTION}

\* The labels of the two bind groups.
A_READ_B_WRITE == "a_read_b_write"
B_READ_A_WRITE == "b_read_a_write"

\* ------------------------------------------------- renderer/pipelines.rs

\* Pipelines::new: the bind group layouts it defines (name |-> entries) and the
\* bind group layouts each pipeline layout declares, slot by slot.
Pipelines_new ==
    [bind_group_layouts |->
        [camera_bind_group_layout |-> <<"Buffer">>,
         texture_read_bind_group_layout |-> <<"Texture", "Sampler">>,
         texture_write_bind_group_layout |-> <<"StorageTexture">>],
     triangle_pipeline_layout |-> <<"camera_bind_group_layout">>,
     simulation_pipeline_layout |-> <<"texture_read_bind_group_layout",
                                      "texture_write_bind_group_layout">>]

\* ------------------------------------------------------------ simulation.rs

\* A variant that rounds the product to the nearest integer instead.
XzLength_Rounded(len, res) == (2 * len * res + LenDen) \div (2 * LenDen)

\* `(len * res as f32) as u32`: the product, truncated toward zero.
XzLength(len, res) == (len * res) \div LenDen

\* The n-th texture the constructor asks the device for.
create_compute_texture(len, res, label, id) ==
    [id |-> id,
     label |-> label,
     width |-> XzLength(len, res),
     height |-> XzLength(len, res),
     format |-> "Rg32Float"]

\* A variant that binds `left` in both positions.
create_read_write_bind_group_SameTexture(left, right, label) ==
    [label |-> label,
     layout |-> "texture_read_write_bind_group_layout",
     entries |-> <<[binding |-> 0, view |-> left.id],
                   [binding |-> 1, view |-> left.id]>>]

\* Binding 0 holds the view of `left` (read), binding 1 the view of `right` (write).
create_read_write_bind_group(left, right, label) ==
    [label |-> label,
     layout |-> "texture_read_write_bind_group_layout",
     entries |-> <<[binding |-> 0, view |-> left.id],
                   [binding |-> 1, view |-> right.id]>>]

ReadTexture(bind_group) == bind_group.entries[1].view
WriteTexture(bind_group) == bind_group.entries[2].view

\* A variant whose counter starts at 1.
WaveSimulation_new_ActiveOne(len, res) ==
    LET texture_a == create_compute_texture(len, res, "a", 1)
        texture_b == create_compute_texture(len, res, "b", 2)
    IN  [constructed |-> TRUE,
         active |-> 1,
         texture_a |-> texture_a,
         texture_b |-> texture_b,
         a_read_b_write_bind_group |->
             create_read_write_bind_group(texture_a, texture_b, "a_read_b_write"),
         b_read_a_write_bind_group |->
             create_read_write_bind_group(texture_b, texture_a, "b_read_a_write")]

WaveSimulation_new(len, res) ==
    LET texture_a == create_compute_texture(len, res, "a", 1)
        texture_b == create_compute_texture(len, res, "b", 2)
    IN  [constructed |-> TRUE,
         active |-> 0,
         texture_a |-> texture_a,
         texture_b |-> texture_b,
         a_read_b_write_bind_group |->
             create_read_write_bind_group(texture_a, texture_b, "a_read_b_write"),
         b_read_a_write_bind_group |->
             create_read_write_bind_group(texture_b, texture_a, "b_read_a_write")]

\* A variant with the two branches exchanged.
get_active_texture_Swapped(sim) ==
    IF sim.active % 2 = 0
    THEN sim.b_read_a_write_bind_group
    ELSE sim.a_read_b_write_bind_group

get_active_texture(sim) ==
    IF sim.active % 2 = 0
    THEN sim.a_read_b_write_bind_group
    ELSE sim.b_read_a_write_bind_group

\* A variant that drops the `.ceil()`.
CeilDiv_Floor(w, tile) == w \div tile

\* `(w as f32 / 16.0).ceil() as u32`, exact for every w below 2^24.
CeilDiv(w, tile) == IF w % tile = 0 THEN w \div tile ELSE (w \div tile) + 1

\* The compute pass one tick records.
TickPass(sim) ==
    LET active_bind_group ==
            IF sim.active % 2 = 0
            THEN sim.a_read_b_write_bind_group
            ELSE sim.b_read_a_write_bind_group
        x == CeilDiv(sim.texture_a.width, WORKGROUP)
        y == CeilDiv(sim.texture_a.height, WORKGROUP)
    IN  [op |-> "compute_pass",
         label |-> "WaveSimulation::tick",
         pipeline |-> "simulation_pipeline",
         slot |-> 0,
         bind_group |-> active_bind_group,
         dispatch |-> <<x, y, 1>>]

\* A variant in which the counter is not advanced.
NextActive_Stuck(active) == active

RECURSIVE Pow2(_)
Pow2(n) == IF n = 0 THEN 1 ELSE 2 * Pow2(n - 1)

\* usize::MAX
USIZE_MAX == Pow2(UsizeBits) - 1

\* `self.active += 1` where it does not panic: the sum, wrapped to the width.
NextActive(active) == (active + 1) % (USIZE_MAX + 1)

\* A variant that ping-pongs by exchanging the two textures.
tick_SwapTextures(sim, enc, overflow_checks) ==
    [simulation |-> [sim EXCEPT !.active = NextActive(@),
                                !.texture_a = sim.texture_b,
                                !.texture_b = sim.texture_a],
     encoder |-> Append(enc, TickPass(sim)),
     panicked |-> FALSE]

\* tick: the simulation afterwards, the encoder afterwards and whether the
\* call panicked.  The pass is recorded before `self.active += 1`, which
\* panics at usize::MAX in a build with overflow checks and wraps otherwise.
tick(sim, enc, overflow_checks) ==
    LET overflow == sim.active = USIZE_MAX
    IN  [simulation |-> IF overflow /\ overflow_checks
                        THEN sim
                        ELSE [sim EXCEPT !.active = NextActive(@)],
         encoder |-> Append(enc, TickPass(sim)),
         panicked |-> overflow /\ overflow_checks]

\* ------------------------------------------------------ renderer/surface.rs

\* `(0..R).map(|i| i as f32 / R as f32).map(|t| (t, t * LENGTH))`:
\* entry i+1 is (t, x) with t = i/R kept as i (over UvDen) and x = t * length
\* kept as i * len (over PosDen).
UvDen(res) == res
PosDen(res) == res * LenDen

\* A variant whose last sample lies on the far edge, t = 1.
axis_vertices_Inclusive(len, res) ==
    [n \in 1..res |-> IF n = res /\ res > 1
                      THEN [t |-> res, x |-> res * len]
                      ELSE [t |-> n - 1, x |-> (n - 1) * len]]

axis_vertices(len, res) == [n \in 1..res |-> [t |-> n - 1, x |-> (n - 1) * len]]

\* A variant in which the first component varies fastest.
iproduct_ColumnMajor(a, b) ==
    [k \in 1..(Len(a) * Len(b)) |->
        <<a[((k - 1) % Len(a)) + 1], b[((k - 1) \div Len(a)) + 1]>>]

\* `iproduct!(a, b)`: every pair, the first component varying slowest.
iproduct(a, b) ==
    [k \in 1..(Len(a) * Len(b)) |->
        <<a[((k - 1) \div Len(b)) + 1], b[((k - 1) % Len(b)) + 1]>>]

SurfaceVertices(len, res) ==
    LET pairs == iproduct(axis_vertices(len, res), axis_vertices(len, res))
    IN  [k \in 1..Len(pairs) |->
            [position |-> <<pairs[k][1].x, 0, pairs[k][2].x>>,
             uv |-> <<pairs[k][1].t, pairs[k][2].t>>]]

\* The six indices of the quad at (row, col).
QuadIndices(row, col, res) ==
    LET row_offset == row * res
    IN  <<row_offset + col,
          row_offset + res + col,
          row_offset + col + 1,
          row_offset + col + 1,
          row_offset + res + col + 1,
          row_offset + res + col>>

\* A variant that walks one quad too far along each axis.
QuadsPerAxis_OffByOne(res) == res

\* `0..SIMULATION_RESOLUTION - 1`: the number of rows, and of columns, of quads.
QuadsPerAxis(res) == res - 1

RECURSIVE ColIndices(_, _, _)
ColIndices(row, col, res) ==
    IF col >= QuadsPerAxis(res) THEN <<>>
    ELSE QuadIndices(row, col, res) \o ColIndices(row, col + 1, res)

RECURSIVE RowIndices(_, _)
RowIndices(row, res) ==
    IF row >= QuadsPerAxis(res) THEN <<>>
    ELSE ColIndices(row, 0, res) \o RowIndices(row + 1, res)

SurfaceIndices(res) == RowIndices(0, res)

SurfaceMesh_new(len, res) ==
    LET vertices == SurfaceVertices(len, res)
        indices == SurfaceIndices(res)
    IN  [built |-> TRUE,
         vertex_buffer |-> vertices,
         index_buffer |-> indices,
         index_count |-> Len(indices)]

\* ------------------------------------------------- building the mesh

MeshInit ==
    /\ length \in Lengths
    /\ resolution \in 1..MaxRes
    /\ simulation = NoSim
    /\ encoder = <<>>
    /\ finished = 0
    /\ binding = NoBinding
    /\ ticks = 0
    /\ last = NoPass
    /\ mesh = NoMesh
    /\ target = "native"
    /\ NoApp

MeshNew ==
    /\ ~mesh.built
    /\ ~panicked
    /\ mesh' = SurfaceMesh_new(length, resolution)
    /\ UNCHANGED <<cfgVars, procVars, simVars, appVars>>

MeshNext == MeshNew

MeshSpec == MeshInit /\ [][MeshNext]_vars

\* ------------------------------------------------ properties of MeshSpec

\* C9: for every resolution R >= 1 the mesh has R^2 vertices and 6*(R-1)^2
\* indices, and every index is below the vertex count.
C9_MeshCounts ==
    mesh.built =>
        /\ Len(mesh.vertex_buffer) = resolution * resolution
        /\ Len(mesh.index_buffer) = 6 * (resolution - 1) * (resolution - 1)
        /\ mesh.index_count = Len(mesh.index_buffer)
        /\ \A n \in 1..Len(mesh.index_buffer) :
              /\ mesh.index_buffer[n] >= 0
              /\ mesh.index_buffer[n] < Len(mesh.vertex_buffer)

C9_Witness ==
    /\ mesh.built
    /\ resolution = 3
    /\ mesh.index_count = 24
    /\ \E n \in 1..Len(mesh.index_buffer) : mesh.index_buffer[n] = 8

\* Twice the signed area, in the x-z plane, of the triangle whose corners are
\* the vertices at indices i, j, k (scaled by PosDen squared).
SignedArea(vs, i, j, k) ==
    LET p == vs[i + 1].position
        q == vs[j + 1].position
        r == vs[k + 1].position
    IN  (q[1] - p[1]) * (r[3] - p[3]) - (q[3] - p[3]) * (r[1] - p[1])

Sign(n) == IF n > 0 THEN 1 ELSE IF n < 0 THEN -1 ELSE 0

TriangleSign(m, t) ==
    Sign(SignedArea(m.vertex_buffer,
                    m.index_buffer[3 * t + 1],
                    m.index_buffer[3 * t + 2],
                    m.index_buffer[3 * t + 3]))

\* C10: every triangle of the mesh has the same winding order: the signed
\* areas of all triangles, taken in index order in the x-z plane, have the
\* same sign.
C10_UniformWinding ==
    mesh.built =>
        \A t, u \in 0..((mesh.index_count \div 3) - 1) :
            /\ TriangleSign(mesh, t) # 0
            /\ TriangleSign(mesh, t) = TriangleSign(mesh, u)

\* The (row, col) grid coordinates of the vertex stored at position k.
RowOf(k) == (k - 1) \div resolution
ColOf(k) == (k - 1) % resolution

\* C11: the vertex at grid coordinates (row, col) has UV (row/R, col/R); the
\* vertex at (0, 0) has UV (0, 0), the vertex at (R-1, R-1) has UV
\* ((R-1)/R, (R-1)/R), and every UV component lies in [0, 1).
C11_VertexUV ==
    mesh.built =>
        LET vs == mesh.vertex_buffer
        IN  /\ vs[1].uv = <<0, 0>>
            /\ vs[Len(vs)].uv = <<resolution - 1, resolution - 1>>
            /\ \A k \in 1..Len(vs) :
                  /\ vs[k].uv = <<RowOf(k), ColOf(k)>>
                  /\ \A c \in 1..2 :
                        /\ vs[k].uv[c] >= 0
                        /\ vs[k].uv[c] < UvDen(resolution)

C11_Witness ==
    /\ mesh.built
    /\ resolution = 3
    /\ mesh.vertex_buffer[9].uv = <<2, 2>>
    /\ mesh.vertex_buffer[4].uv = <<1, 0>>

\* The n-th index of the quad at (row, col) addresses the vertex at grid
\* coordinates (row + dr, col + dc).
QuadCorner(q, n, dr, dc) ==
    LET per == resolution - 1
        vertex == mesh.vertex_buffer[mesh.index_buffer[6 * q + n] + 1]
    IN  vertex.uv = <<(q \div per) + dr, (q % per) + dc>>

C17_CenteredAtOrigin ==
    mesh.built =>
        LET vs == mesh.vertex_buffer
        IN  \A k \in 1..Len(vs) :
                /\ vs[k].position[2] = 0
                /\ \E m \in 1..Len(vs) :
                      /\ vs[m].position[1] = -vs[k].position[1]
                      /\ vs[m].position[3] = -vs[k].position[3]

\* ------------------------------------------- a client of WaveSimulation

SimInit ==
    /\ length \in Lengths
    /\ resolution \in Resolutions
    /\ simulation = NoSim
    /\ encoder = <<>>
    /\ finished = 0
    /\ binding = NoBinding
    /\ ticks = 0
    /\ last = NoPass
    /\ mesh = NoMesh
    /\ target = "native"
    /\ NoApp

SimNew ==
    /\ ~simulation.constructed
    /\ ~panicked
    /\ simulation' = WaveSimulation_new(length, resolution)
    /\ UNCHANGED <<cfgVars, procVars, meshVars, appVars, encoder, finished, binding, ticks, last>>

SimTick ==
    /\ simulation.constructed
    /\ ~panicked
    /\ ticks < MaxTicks
    /\ \E overflow_checks \in BOOLEAN :
          LET r == tick(simulation, encoder, overflow_checks)
          IN  /\ simulation' = r.simulation
              /\ encoder' = r.encoder
              /\ last' = r.encoder[Len(r.encoder)]
              /\ panicked' = r.panicked
    /\ ticks' = ticks + 1
    /\ binding' = NoBinding    \* a borrowed &BindGroup cannot outlive `&mut self`
    /\ UNCHANGED <<cfgVars, failure, meshVars, appVars, finished>>

SimGetActiveTexture ==
    /\ simulation.constructed
    /\ ~panicked
    /\ binding' = get_active_texture(simulation)
    /\ UNCHANGED <<cfgVars, procVars, meshVars, appVars, simulation, encoder, finished, ticks, last>>

\* The client finishes the encoder and starts a new one for the next ticks.
SimFinishEncoder ==
    /\ simulation.constructed
    /\ ~panicked
    /\ finished < MaxEncoders
    /\ encoder # <<>>
    /\ encoder' = <<>>
    /\ finished' = finished + 1
    /\ UNCHANGED <<cfgVars, procVars, meshVars, appVars, simulation, binding, ticks, last>>

SimNext == SimNew \/ SimTick \/ SimGetActiveTexture \/ SimFinishEncoder

SimSpec == SimInit /\ [][SimNext]_vars

\* ------------------------- the engine: a simulation and its surface mesh

EngineResolutions == (1..MaxRes) \cup {10}

EngineInit ==
    /\ length \in Lengths
    /\ resolution \in EngineResolutions
    /\ simulation = NoSim
    /\ encoder = <<>>
    /\ finished = 0
    /\ binding = NoBinding
    /\ ticks = 0
    /\ last = NoPass
    /\ mesh = NoMesh
    /\ target = "native"
    /\ NoApp

EngineNext == SimNext \/ MeshNext

EngineSpec == EngineInit /\ [][EngineNext]_vars

\* C16: with resolution 10 and length 5.0 the grid textures are 50 x 50,
\* after exactly 3 ticks the active role is b-read, and the surface mesh has
\* 100 vertices and 486 indices.
C16_EndToEnd ==
    (resolution = 10 /\ length = SIMULATION_LENGTH_Q) =>
        /\ simulation.constructed =>
              /\ simulation.texture_a.width = 50
              /\ simulation.texture_a.height = 50
              /\ simulation.texture_b.width = 50
              /\ simulation.texture_b.height = 50
        /\ (ticks = 3 /\ binding # NoBinding) =>
              /\ binding.label = B_READ_A_WRITE
              /\ ReadTexture(binding) = simulation.texture_b.id
        /\ mesh.built =>
              /\ Len(mesh.vertex_buffer) = 100
              /\ Len(mesh.index_buffer) = 486
              /\ mesh.index_count = 486

C16_Witness ==
    /\ resolution = 10
    /\ length = SIMULATION_LENGTH_Q
    /\ simulation.constructed
    /\ ticks = 3
    /\ binding # NoBinding
    /\ mesh.built

\* --------------------------------- renderer/mod.rs, application.rs, input.rs
\* Not modelled: the FrameTimer, the camera position and the egui state; none
\* of them is read by anything below.

Max(a, b) == IF a >= b THEN a ELSE b

\* GpuContext::new: `width.max(1)`, `height.max(1)`.
GpuContext_new(size) == <<Max(size[1], 1), Max(size[2], 1)>>

\* FrameTargets::create_depth: a texture of exactly the given size.
create_depth(size) == <<size[1], size[2]>>

\* A variant that divides the height by the width.
Camera_resize_Inverted(cam, size) ==
    [cam EXCEPT !.aspect_ratio = [num |-> size[2], den |-> size[1]]]

\* Camera::resize: `width as f32 / height as f32`, kept as the two terms.
Camera_resize(cam, size) ==
    [cam EXCEPT !.aspect_ratio = [num |-> size[1], den |-> size[2]]]

\* The camera App::new builds: `aspect_ratio: 0.0`.  Yaw and pitch are
\* counted in steps of mouse_sensitivity, the pitch from its initial value.
Camera_initial == [aspect_ratio |-> [num |-> 0, den |-> 1], yaw |-> 0, pitch |-> 0]

Min(a, b) == IF a <= b THEN a ELSE b

\* `self.pitch.clamp(-FRAC_PI_2 + 0.001, FRAC_PI_2 - 0.001)`
ClampPitch(pitch) == Max(-MaxPitchDown, Min(pitch, MaxPitchUp))

\* Camera::update_orientation
update_orientation(cam, delta) ==
    [cam EXCEPT !.pitch = ClampPitch(@ - delta[2]),
                !.yaw = @ + delta[1]]

\* InputState::device_event: the mouse_delta afterwards.
InputState_device_event(delta, event) ==
    IF event.kind = "MouseMotion" THEN event.delta ELSE delta

\* Renderer::new: GpuContext::new fails (`?`) when the surface, the adapter
\* or the device cannot be had.
Renderer_new(size, fail) ==
    IF fail \in {"surface", "adapter", "device"}
    THEN [ok |-> FALSE, err |-> fail]
    ELSE [ok |-> TRUE,
          surface_config |-> GpuContext_new(size),
          depth |-> create_depth(size)]

\* A variant in which a failed simulation resource is only logged.
App_new_ErrorLogged(size, fail, len, res) ==
    LET renderer == Renderer_new(size, fail)
    IN  IF ~renderer.ok
        THEN [panicked |-> TRUE]
        ELSE [panicked |-> FALSE,
              renderer |-> renderer,
              camera |-> Camera_initial,
              simulation |-> IF fail = "simulation" THEN NoSim
                             ELSE WaveSimulation_new(len, res)]

\* App::new: `Renderer::new(..).await.unwrap()` panics on Err, and a failed
\* texture or bind group creation in WaveSimulation::new panics in wgpu's
\* default error handler.
App_new(size, fail, len, res) ==
    LET renderer == Renderer_new(size, fail)
    IN  IF ~renderer.ok \/ fail = "simulation"
        THEN [panicked |-> TRUE]
        ELSE [panicked |-> FALSE,
              renderer |-> renderer,
              camera |-> Camera_initial,
              simulation |-> WaveSimulation_new(len, res)]

\* Renderer::render: the commands it records into its encoder.
RenderPasses(sim) ==
    <<[op |-> "render_pass",
       label |-> "Renderer::main_render_pass",
       color_load |-> "Clear",
       depth_attachment |-> TRUE,
       pipeline |-> "triangle_pipeline",
       bind_groups |-> <<"camera">>,
       vertex_buffer |-> "none",
       index_buffer |-> "none",
       draw |-> [indexed |-> FALSE, first |-> 0, count |-> 3]],
      [op |-> "render_pass",
       label |-> "Renderer::ui_render_pass",
       color_load |-> "Load",
       depth_attachment |-> FALSE,
       pipeline |-> "egui",
       bind_groups |-> <<>>,
       vertex_buffer |-> "egui",
       index_buffer |-> "egui",
       draw |-> [indexed |-> TRUE, first |-> 0, count |-> 0]]>>

\* Renderer::render: the simulation afterwards (it is never touched), the
\* encoder it submitted and the calls it made, in order.  When the surface
\* texture cannot be acquired, `get_current_texture().unwrap()` panics
\* before anything is recorded.
render(cam, sim, acquired) ==
    LET passes == RenderPasses(sim)
    IN  IF ~acquired
        THEN [panicked |-> TRUE, simulation |-> sim]
        ELSE
        [panicked |-> FALSE,
         simulation |-> sim,
         encoder |-> passes,
         frame |-> <<[call |-> "get_current_texture"],
                     [call |-> "create_command_encoder"],
                     [call |-> "camera.update_buffer",
                      aspect_ratio |-> cam.aspect_ratio],
                     [call |-> "begin_render_pass:main"],
                     [call |-> "begin_render_pass:ui"],
                     [call |-> "queue.submit"],
                     [call |-> "pre_present_notify"],
                     [call |-> "present"]>>]

AppInit ==
    /\ length = SIMULATION_LENGTH_Q
    /\ resolution = SIMULATION_RESOLUTION
    /\ simulation = NoSim
    /\ encoder = <<>>
    /\ finished = 0
    /\ binding = NoBinding
    /\ ticks = 0
    /\ last = NoPass
    /\ mesh = NoMesh
    /\ target \in Targets
    /\ NoApp

\* App::resize on an App value that is not yet stored in the handler.
App_resize(a, size) ==
    [a EXCEPT !.renderer.surface_config = <<size[1], size[2]>>,
              !.renderer.depth = create_depth(size),
              !.camera = Camera_resize(@, size)]

\* `self.app = Some(..)`: the fields of the App value become the state; a
\* panic while it was being built leaves no App.
AppStored(r) ==
    /\ panicked' = r.panicked
    /\ IF r.panicked
       THEN UNCHANGED <<app, surface_config, depth, camera, simulation>>
       ELSE /\ surface_config' = r.renderer.surface_config
            /\ depth' = r.renderer.depth
            /\ camera' = r.camera
            /\ simulation' = r.simulation
            /\ app' = TRUE

\* AppHandler::resumed: create the window, then App::new: at once on a native
\* target (pollster::block_on), in a spawned future on wasm32.
Resumed ==
    /\ ~app /\ ~pending /\ ~exited /\ ~panicked
    /\ \E size \in WindowSizes :
          /\ window' = size
          /\ IF target = "wasm32"
             THEN /\ pending' = TRUE
                  /\ UNCHANGED <<app, surface_config, depth, camera,
                                 simulation, procVars>>
             ELSE /\ \E fail \in InitFailures :
                        /\ failure' = fail
                        /\ AppStored(App_new(size, fail, length, resolution))
                  /\ UNCHANGED pending
    /\ redraw' = TRUE   \* the new window is asked to draw itself
    /\ focused' = FALSE
    /\ keys_held' = {}
    /\ mouse_delta' = <<0, 0>>
    /\ UNCHANGED <<cfgVars, meshVars, encoder, finished, binding, ticks, last,
                   exited, resized, frames, frame>>

\* AppHandler::user_event (wasm32): the future delivers the App, which is
\* resized to the window's inner size and stored.
UserEvent ==
    /\ pending /\ ~app /\ ~exited /\ ~panicked
    /\ \E fail \in InitFailures :
          LET r == App_new(window, fail, length, resolution)
          IN  /\ failure' = fail
              /\ AppStored(IF r.panicked THEN r ELSE App_resize(r, window))
    /\ pending' = FALSE
    /\ UNCHANGED <<cfgVars, meshVars, encoder, finished, binding, ticks, last,
                   exited, window, focused, keys_held, mouse_delta, resized,
                   redraw, frames, frame>>

\* AppHandler::window_event while `app` is None: the event is dropped.  The
\* window itself has the new size after a Resized, and a RedrawRequested
\* that was delivered is no longer pending.
DroppedWindowEvent ==
    /\ ~app /\ pending /\ ~exited /\ ~panicked
    /\ \/ /\ \E size \in WindowSizes : window' = size
          /\ UNCHANGED redraw
       \/ /\ redraw
          /\ redraw' = FALSE
          /\ UNCHANGED window
    /\ UNCHANGED <<cfgVars, procVars, simVars, meshVars, app, pending, exited,
                   surface_config, depth, camera, focused, keys_held,
                   mouse_delta, resized, frames, frame>>

\* WindowEvent::Resized -> App::resize
Resized ==
    /\ app /\ ~exited /\ ~panicked
    /\ \E size \in WindowSizes :
          /\ window' = size
          /\ surface_config' = <<size[1], size[2]>>    \* GpuContext::resize
          /\ depth' = create_depth(size)               \* FrameTargets::resize
          /\ camera' = Camera_resize(camera, size)
          /\ resized' = size
    /\ \E exposed \in BOOLEAN : redraw' = (redraw \/ exposed)
    /\ UNCHANGED <<cfgVars, procVars, simVars, meshVars, app, pending, exited,
                   focused, keys_held, mouse_delta, frames, frame>>

\* WindowEvent::CloseRequested -> event_loop.exit()
CloseRequested ==
    /\ app /\ ~exited /\ ~panicked
    /\ exited' = TRUE
    /\ UNCHANGED <<cfgVars, procVars, simVars, meshVars, app, pending, window, surface_config,
                   depth, camera, focused, keys_held, mouse_delta, resized,
                   redraw, frames, frame>>

\* WindowEvent::MouseInput, unless the UI consumed it -> set_focused(true)
MouseInput ==
    /\ app /\ ~exited /\ ~panicked
    /\ \E consumed \in BOOLEAN : focused' = IF consumed THEN focused ELSE TRUE
    /\ UNCHANGED <<cfgVars, procVars, simVars, meshVars, app, pending, exited, window,
                   surface_config, depth, camera, keys_held, mouse_delta,
                   resized, redraw, frames, frame>>

\* WindowEvent::KeyboardInput, unless the UI consumed it: KeyQ drops the
\* focus, any other key enters or leaves keys_held.
KeyboardInput ==
    /\ app /\ ~exited /\ ~panicked
    /\ \E consumed \in BOOLEAN, code \in KeyCodes, state \in ElementStates :
          IF consumed
          THEN UNCHANGED <<focused, keys_held>>
          ELSE IF code = "KeyQ"
          THEN focused' = FALSE /\ UNCHANGED keys_held
          ELSE /\ keys_held' = IF state = "Pressed"
                               THEN keys_held \cup {code}
                               ELSE keys_held \ {code}
               /\ UNCHANGED focused
    /\ UNCHANGED <<cfgVars, procVars, simVars, meshVars, app, pending, exited, window,
                   surface_config, depth, camera, mouse_delta, resized, redraw,
                   frames, frame>>

\* AppHandler::device_event -> App::device_event
DeviceEvent(event) ==
    /\ app /\ ~exited /\ ~panicked
    /\ mouse_delta' = InputState_device_event(mouse_delta, event)
    /\ camera' = IF focused
                 THEN update_orientation(camera, mouse_delta')
                 ELSE camera
    /\ camera'.yaw \in -MaxYaw..MaxYaw
    /\ UNCHANGED <<cfgVars, procVars, simVars, meshVars, app, pending, exited, window,
                   surface_config, depth, focused, keys_held, resized, redraw,
                   frames, frame>>

\* AppHandler::device_event: `if let Some(app)`, else the event is dropped.
AppHandler_device_event(event) ==
    IF app
    THEN DeviceEvent(event)
    ELSE ~exited /\ ~panicked /\ UNCHANGED vars

DeviceEvents_any == \E event \in DeviceEvents : AppHandler_device_event(event)

\* WindowEvent::RedrawRequested -> App::update
RedrawRequested ==
    /\ app /\ ~exited /\ ~panicked
    /\ redraw
    /\ frames < MaxFrames
    /\ \E acquired \in BOOLEAN :
          LET r == render(camera, simulation, acquired)
          IN  /\ panicked' = r.panicked
              /\ simulation' = r.simulation
              /\ IF r.panicked
                 THEN /\ redraw' = FALSE
                      /\ UNCHANGED <<encoder, frame, frames>>
                 ELSE /\ encoder' = r.encoder
                      /\ frame' = r.frame
                      /\ frames' = frames + 1
                      /\ redraw' = TRUE    \* `self.window.request_redraw()`
    /\ UNCHANGED <<cfgVars, failure, meshVars, finished, binding, ticks, last,
                   app, pending, exited, window, surface_config, depth, camera,
                   focused, keys_held, mouse_delta, resized>>

AppNext ==
    \/ Resumed
    \/ UserEvent
    \/ DroppedWindowEvent
    \/ Resized
    \/ CloseRequested
    \/ MouseInput
    \/ KeyboardInput
    \/ DeviceEvents_any
    \/ RedrawRequested

AppSpec == AppInit /\ [][AppNext]_vars

\* ------------------------------------------------ properties of AppSpec

CallNames(log) == [n \in 1..Len(log) |-> log[n].call]

IsStage(c) ==
    c.call \in {"simulation.tick", "camera.update_buffer",
                "begin_render_pass:main", "begin_render_pass:ui",
                "queue.submit", "present"}

PassIndex(enc, label) ==
    IF \E n \in 1..Len(enc) : enc[n].label = label
    THEN CHOOSE n \in 1..Len(enc) : enc[n].label = label
    ELSE 0

MAIN_PASS == "Renderer::main_render_pass"
UI_PASS == "Renderer::ui_render_pass"
TICK_PASS == "WaveSimulation::tick"

\* C13: after any sequence of resize events the depth attachment has the
\* dimensions of the most recent resize, the camera aspect ratio is its width
\* over its height, and the simulation's textures, bind groups and parity
\* counter are as the resize found them.
C13_ResizeEffect ==
    /\ [](resized # NoResize =>
             /\ depth = resized
             /\ camera.aspect_ratio = [num |-> resized[1], den |-> resized[2]]
             /\ simulation = WaveSimulation_new(length, resolution))
    /\ [][resized' # resized =>
             /\ simulation' = simulation
             /\ ticks' = ticks]_vars

C13_Witness ==
    /\ resized = <<2, 1>>
    /\ window = <<2, 1>>
    /\ depth = <<2, 1>>
    /\ frames >= 1
    /\ simulation.constructed

C20_OrientationPerMotion ==
    [][\A event \in DeviceEvents :
          DeviceEvent(event) =>
              IF focused /\ event.kind = "MouseMotion"
              THEN /\ camera'.yaw = camera.yaw + event.delta[1]
                   /\ camera'.pitch = ClampPitch(camera.pitch - event.delta[2])
              ELSE /\ camera'.yaw = camera.yaw
                   /\ camera'.pitch = camera.pitch]_vars

\* C21: once the app is initialized, and after any sequence of resize events
\* (a resize to width 0 or height 0 included), the surface configuration and
\* the depth attachment have a width and a height of at least 1.
C21_MinDimensions ==
    app => /\ surface_config[1] >= 1
           /\ surface_config[2] >= 1
           /\ depth[1] >= 1
           /\ depth[2] >= 1

\* C22: at every frame rendered the camera aspect ratio written to the
\* view-projection uniform equals the surface width over the surface height
\* of that moment; the first frame in particular does not carry the initial
\* 0.0, whichever of Resized and RedrawRequested comes first.
C22_AspectAtFrame ==
    [][frames' = frames + 1 =>
          \A i \in DOMAIN frame' :
              frame'[i].call = "camera.update_buffer" =>
                  frame'[i].aspect_ratio.num * surface_config[2]
                      = surface_config[1] * frame'[i].aspect_ratio.den]_vars

\* C23: the frame loop sustains itself: every RedrawRequested event handled
\* by an initialized App renders exactly one frame and requests one further
\* redraw, so that a frame can always follow until a close request; window
\* and device events that arrive before the App exists change no state of
\* the program.
C23_FrameLoop ==
    /\ [][RedrawRequested =>
             /\ frames' = frames + 1
             /\ redraw'
             /\ ~panicked']_vars
    /\ [](app /\ frames >= 1 /\ ~exited => redraw /\ ~panicked)
    /\ [][~app /\ (DroppedWindowEvent \/ DeviceEvents_any) =>
             UNCHANGED <<app, surface_config, depth, camera, focused,
                         keys_held, mouse_delta, simVars, frames, frame,
                         exited, procVars>>]_vars

\* C4: every rendered frame performs, once each and in this order, the
\* simulation tick, the camera uniform update, the main render pass with a
\* depth attachment, the UI pass loading the same target, one queue
\* submission and the present; the compute dispatch precedes the main render
\* pass within the one submitted encoder.
C4_FrameOrder ==
    frames >= 1 =>
        /\ CallNames(SelectSeq(frame, IsStage)) =
              <<"simulation.tick", "camera.update_buffer",
                "begin_render_pass:main", "begin_render_pass:ui",
                "queue.submit", "present">>
        /\ PassIndex(encoder, TICK_PASS) >= 1
        /\ PassIndex(encoder, TICK_PASS) < PassIndex(encoder, MAIN_PASS)
        /\ PassIndex(encoder, MAIN_PASS) < PassIndex(encoder, UI_PASS)
        /\ encoder[PassIndex(encoder, MAIN_PASS)].depth_attachment
        /\ encoder[PassIndex(encoder, UI_PASS)].color_load = "Load"

\* C5: the simulation advances once per frame: the number of tick calls, and
\* of compute dispatches recorded, equals the number of frames rendered.
C5_TickPerFrame ==
    /\ ticks = frames
    /\ simulation.constructed => simulation.active = frames

\* C6: the main render pass of every frame binds the camera uniform, the
\* surface mesh's vertex and index buffers and the simulation's active
\* binding, and draws the mesh's full index range, 6*(R-1)^2 indices.
C6_MainPassBindings ==
    frames >= 1 =>
        LET main == encoder[PassIndex(encoder, MAIN_PASS)]
            bound == {main.bind_groups[n] : n \in 1..Len(main.bind_groups)}
        IN  /\ "camera" \in bound
            /\ get_active_texture(simulation).label \in bound
            /\ mesh.built
            /\ main.vertex_buffer = "SurfaceMesh::vertex_buffer"
            /\ main.index_buffer = "SurfaceMesh::index_buffer"
            /\ main.draw.indexed
            /\ main.draw.first = 0
            /\ main.draw.count = 6 * (resolution - 1) * (resolution - 1)

\* ------------------------------------------------ properties of SimSpec


\* C1: after N ticks of a fresh WaveSimulation, get_active_texture returns
\* the `a read / b write` bind group when N is even and the `b read / a write`
\* bind group when N is odd, whatever encoders the ticks were recorded into.
C1_ParityRole ==
    binding # NoBinding =>
        /\ ticks % 2 = 0 =>
              /\ binding.label = A_READ_B_WRITE
              /\ ReadTexture(binding) = simulation.texture_a.id
              /\ WriteTexture(binding) = simulation.texture_b.id
        /\ ticks % 2 = 1 =>
              /\ binding.label = B_READ_A_WRITE
              /\ ReadTexture(binding) = simulation.texture_b.id
              /\ WriteTexture(binding) = simulation.texture_a.id

C1_Witness ==
    /\ ticks = 3
    /\ finished >= 1
    /\ binding # NoBinding
    /\ binding.label = B_READ_A_WRITE

\* C2: after at least one tick, the bind group get_active_texture returns
\* reads the texture that the most recent tick's dispatch had bound for writing.
C2_ReadsNewest ==
    (ticks >= 1 /\ binding # NoBinding) =>
        ReadTexture(binding) = WriteTexture(last.bind_group)

C2_Witness ==
    /\ ticks = 2
    /\ binding # NoBinding
    /\ ReadTexture(binding) = simulation.texture_a.id
    /\ WriteTexture(last.bind_group) = simulation.texture_a.id

DisjointRoles(pass) == ReadTexture(pass.bind_group) # WriteTexture(pass.bind_group)

\* C3: there are exactly two grids, one in the read role and the other in the
\* write role, and every dispatch recorded by tick binds different textures
\* for reading and for writing.
C3_DisjointRoles ==
    simulation.constructed =>
        LET grids == {simulation.texture_a.id, simulation.texture_b.id}
            active_group == get_active_texture(simulation)
        IN  /\ Cardinality(grids) = 2
            /\ {ReadTexture(active_group), WriteTexture(active_group)} = grids
            /\ \A i \in 1..Len(encoder) : DisjointRoles(encoder[i])
            /\ last # NoPass => DisjointRoles(last)

C3_Witness ==
    /\ simulation.constructed
    /\ Len(encoder) >= 2
    /\ ticks >= 3

Covers(groups, extent) ==
    /\ groups * WORKGROUP >= extent
    /\ (groups - 1) * WORKGROUP < extent

TilesCover(pass) ==
    /\ Len(pass.dispatch) = 3
    /\ Covers(pass.dispatch[1], simulation.texture_a.width)
    /\ Covers(pass.dispatch[2], simulation.texture_a.height)
    /\ pass.dispatch[3] = 1

ProgramConfig ==
    /\ length = SIMULATION_LENGTH_Q
    /\ resolution = SIMULATION_RESOLUTION

OneDispatchPerTick ==
    [][ticks' = ticks + 1 =>
          /\ Len(encoder') = Len(encoder) + 1
          /\ encoder'[Len(encoder')].op = "compute_pass"
          /\ last' = encoder'[Len(encoder')]]_vars

Role(sim) == get_active_texture(sim).label

\* C15: the simulation has exactly the two roles a-read and b-read, every
\* tick call moves to the other role, and no tick call fails, however many
\* ticks have occurred, the limit of the counter included.
C15_TickAlwaysFlips ==
    /\ [](simulation.constructed => Role(simulation) \in {A_READ_B_WRITE, B_READ_A_WRITE})
    /\ [][ticks' = ticks + 1 =>
             /\ ~panicked'
             /\ Role(simulation') # Role(simulation)]_vars

\* The pipeline layout of the pipeline a pass sets.
PassLayout(pass) == Pipelines_new.simulation_pipeline_layout

\* C18: the layout the simulation's bind groups are built with is one that
\* Pipelines defines and that the compute pipeline layout declares at the slot
\* the group is set at, and every dispatch has a bind group set at every slot
\* the compute pipeline layout declares.
C18_LayoutAgreement ==
    simulation.constructed =>
        /\ \A group \in {simulation.a_read_b_write_bind_group,
                         simulation.b_read_a_write_bind_group} :
              group.layout \in DOMAIN Pipelines_new.bind_group_layouts
        /\ last # NoPass =>
              /\ PassLayout(last)[last.slot + 1] = last.bind_group.layout
              /\ \A n \in 1..Len(PassLayout(last)) : n - 1 \in {last.slot}

Resources(sim) ==
    <<sim.texture_a, sim.texture_b,
      sim.a_read_b_write_bind_group, sim.b_read_a_write_bind_group>>

\* C19: the two textures and the two bind groups are created once by new and
\* never replaced: tick changes only the parity counter, and
\* get_active_texture changes nothing and returns the same bind group however
\* often it is called between two ticks.
C19_ResourcesFixed ==
    /\ [](simulation.constructed =>
             Resources(simulation) =
                 Resources(WaveSimulation_new(length, resolution)))
    /\ [][simulation.constructed =>
             /\ Resources(simulation') = Resources(simulation)
             /\ ticks' = ticks => simulation' = simulation
             /\ (binding # NoBinding /\ binding' # NoBinding) =>
                   binding' = binding]_vars

C19_Witness ==
    /\ simulation.constructed
    /\ ticks >= 3
    /\ simulation.active = 3
    /\ binding = simulation.b_read_a_write_bind_group

\* C7 as stated: each tick records one dispatch of (ceil(W/16), ceil(H/16), 1)
\* workgroups, and with the program's constants the dispatch is (32, 32, 1).
C7_Original ==
    last # NoPass =>
        /\ TilesCover(last)
        /\ ProgramConfig => last.dispatch = <<32, 32, 1>>

\* C7 (amended): each tick records exactly one dispatch of
\* (ceil(W/16), ceil(H/16), 1) workgroups, the fewest 16x16 tiles that cover
\* the W x H texture; with the program's constants (length 5.0, resolution
\* 500) the texture is 2500 x 2500 and the dispatch is (157, 157, 1).
C7_Dispatch ==
    /\ [](last # NoPass =>
            /\ TilesCover(last)
            /\ ProgramConfig => last.dispatch = <<157, 157, 1>>)
    /\ OneDispatchPerTick

C7_Witness ==
    /\ ProgramConfig
    /\ ticks >= 2
    /\ last # NoPass
    /\ simulation.texture_a.width % WORKGROUP # 0

\* w is the product len/LenDen * res with its fraction cut off.
IsTruncation(w, len, res) ==
    /\ w * LenDen <= len * res
    /\ len * res < (w + 1) * LenDen

\* w is an integer nearest to the product len/LenDen * res.
IsNearest(w, len, res) ==
    /\ 2 * (w * LenDen - len * res) <= LenDen
    /\ 2 * (len * res - w * LenDen) <= LenDen

SameExtent(w) ==
    /\ simulation.texture_a.width = w
    /\ simulation.texture_a.height = w
    /\ simulation.texture_b.width = w
    /\ simulation.texture_b.height = w

\* C8 as stated: both textures are square, of equal size, the size being
\* length x resolution rounded to the nearest integer and never below 1.
C8_Original ==
    simulation.constructed =>
        /\ SameExtent(simulation.texture_a.width)
        /\ IsNearest(simulation.texture_a.width, length, resolution)
        /\ simulation.texture_a.width >= 1

\* C8 (amended): both textures are created with identical width and height,
\* equal to length x resolution truncated toward zero (2500 for the program's
\* constants); the size is 0 when the product is below 1.
C8_TextureExtent ==
    simulation.constructed =>
        /\ SameExtent(simulation.texture_a.width)
        /\ IsTruncation(simulation.texture_a.width, length, resolution)
        /\ ProgramConfig => simulation.texture_a.width = 2500
        /\ (length * resolution < LenDen) => simulation.texture_a.width = 0

C8_Witness ==
    /\ simulation.constructed
    /\ (length * resolution) % LenDen = 3
    /\ simulation.texture_b.width >= 1

====
